---- MODULE Spec2Model ----
(***************************************************************************)
(* The on-call schedule planner of exploration/Exploration.ipynb: the      *)
(* notebook builds a CP-SAT model cell by cell (boolean decision grids,    *)
(* hard constraints, cost variables, a weighted objective), hands it to    *)
(* the solver and reads the valuation back.  Every code cell is one action *)
(* that adds what the cell adds to the constraint model; Solve returns any *)
(* valuation the emitted model accepts.                                    *)
(***************************************************************************)
EXTENDS Integers, FiniteSets, Sequences, TLC

\* Bounds of the explored inputs.
NumEmployees == 2
MaxSlots == 3
MaxTarget == 2

VARIABLES
    amountTimeSlots,                \* number of time slots N
    timeSlotsWorkday,               \* slots during working hours
    normalEmployees,                \* pool E_N
    escalationEmployees,            \* pool E_E
    targetWorkloadNormal,           \* twl_N
    targetWorkloadEscalation,       \* twl_E
    normalEmployeeConstraints,      \* ec_N : (e,t) -> "None" | "True" | "False"
    escalationEmployeeConstraints,  \* ec_E
    model,                          \* the CpModel built so far
    pc,                             \* the next notebook cell to run
    status,                         \* solver status name
    solution,                       \* the valuation solver.Value reads
    output                          \* what the result cell prints

vars == <<amountTimeSlots, timeSlotsWorkday, normalEmployees, escalationEmployees,
          targetWorkloadNormal, targetWorkloadEscalation, normalEmployeeConstraints,
          escalationEmployeeConstraints, model, pc, status, solution, output>>

input == <<amountTimeSlots, timeSlotsWorkday, normalEmployees, escalationEmployees,
           targetWorkloadNormal, targetWorkloadEscalation, normalEmployeeConstraints,
           escalationEmployeeConstraints>>

-----------------------------------------------------------------------------
\* Generic helpers.

Max2(a, b) == IF a >= b THEN a ELSE b

Min2(a, b) == IF a <= b THEN a ELSE b

MaxOf(S) == CHOOSE x \in S : \A y \in S : y <= x

RECURSIVE SumOver(_, _)
SumOver(f, S) ==
    IF S = {} THEN 0
    ELSE LET x == CHOOSE y \in S : TRUE IN f[x] + SumOver(f, S \ {x})

-----------------------------------------------------------------------------
\* Input configuration (first code cell).

employees == 0 .. (NumEmployees - 1)

timeSlots == 0 .. (amountTimeSlots - 1)

timeSlotsFree == {t \in timeSlots : t \notin timeSlotsWorkday}

Pool(role) == IF role = "N" THEN normalEmployees ELSE escalationEmployees

Target(role) == IF role = "N" THEN targetWorkloadNormal ELSE targetWorkloadEscalation

EmployeeConstraints(role) ==
    IF role = "N" THEN normalEmployeeConstraints ELSE escalationEmployeeConstraints

\* A constraint dictionary that is None everywhere except on the entries of
\* forced, a set of <<e, t, value>>.
ConstraintDict(pool, slots, forced) ==
    [k \in pool \X slots |->
        IF <<k[1], k[2], "True">> \in forced THEN "True"
        ELSE IF <<k[1], k[2], "False">> \in forced THEN "False"
        ELSE "None"]

\* The forced availability entries <<role, e, t, value>> of an input: none, one
\* entry, or two entries of one role at one slot for two different employees.
ForcedChoices(slots, poolN, poolE) ==
    LET entries == {<<"N", e, t, b>> : e \in poolN, t \in slots, b \in {"True", "False"}}
                   \cup {<<"E", e, t, b>> : e \in poolE, t \in slots, b \in {"True", "False"}}
    IN  {{}} \cup {{x} : x \in entries}
        \cup UNION {{{x, y} : y \in {z \in entries :
                                        z[1] = x[1] /\ z[3] = x[3] /\ z[2] # x[2]}} :
                        x \in entries}

ForcedOf(F, role) == {<<x[2], x[3], x[4]>> : x \in {y \in F : y[1] = role}}

EmptyModel ==
    [eq |-> {}, sum1 |-> {}, impl |-> {}, absMinus |-> {}, maxEq |-> {}, objective |-> {}]

NoSolution == [N |-> <<>>, E |-> <<>>, abs |-> <<>>, cost |-> <<>>]

InitRest ==
    /\ model = EmptyModel
    /\ pc = "employeeConstraints"
    /\ status = "NONE"
    /\ solution = NoSolution
    /\ output = <<>>

\* Inputs with forced availability entries; all targets 0, the working-hours
\* pattern of the notebook (slots 1, 2 of every block of 4).
Init ==
    /\ amountTimeSlots \in 1 .. MaxSlots
    /\ timeSlotsWorkday = {t \in timeSlots : t % 4 \in {1, 2}}
    /\ normalEmployees \in (SUBSET employees) \ {{}}
    /\ escalationEmployees \in (SUBSET employees) \ {{}}
    /\ targetWorkloadNormal = [e \in normalEmployees |-> 0]
    /\ targetWorkloadEscalation = [e \in escalationEmployees |-> 0]
    /\ \E F \in ForcedChoices(timeSlots, normalEmployees, escalationEmployees) :
          /\ normalEmployeeConstraints =
                ConstraintDict(normalEmployees, timeSlots, ForcedOf(F, "N"))
          /\ escalationEmployeeConstraints =
                ConstraintDict(escalationEmployees, timeSlots, ForcedOf(F, "E"))
    /\ InitRest

\* Inputs with any working-hours subset and a target workload per role; no
\* forced availability entries.
InitCost ==
    /\ amountTimeSlots \in 1 .. MaxSlots
    /\ timeSlotsWorkday \in SUBSET timeSlots
    /\ normalEmployees \in (SUBSET employees) \ {{}}
    /\ escalationEmployees \in (SUBSET employees) \ {{}}
    /\ \E tw \in 0 .. MaxTarget : targetWorkloadNormal = [e \in normalEmployees |-> tw]
    /\ \E tw \in 0 .. MaxTarget : targetWorkloadEscalation = [e \in escalationEmployees |-> tw]
    /\ normalEmployeeConstraints = ConstraintDict(normalEmployees, timeSlots, {})
    /\ escalationEmployeeConstraints = ConstraintDict(escalationEmployees, timeSlots, {})
    /\ InitRest

\* Inputs for the composed objective: every number of free slots (the working
\* hours are a prefix of the slots), all targets 0, no forced entries.
InitObjective ==
    /\ amountTimeSlots \in 1 .. MaxSlots
    /\ timeSlotsWorkday \in {0 .. (k - 1) : k \in 0 .. amountTimeSlots}
    /\ normalEmployees \in (SUBSET employees) \ {{}}
    /\ escalationEmployees \in (SUBSET employees) \ {{}}
    /\ targetWorkloadNormal = [e \in normalEmployees |-> 0]
    /\ targetWorkloadEscalation = [e \in escalationEmployees |-> 0]
    /\ normalEmployeeConstraints = ConstraintDict(normalEmployees, timeSlots, {})
    /\ escalationEmployeeConstraints = ConstraintDict(escalationEmployees, timeSlots, {})
    /\ InitRest

-----------------------------------------------------------------------------
\* Model helpers.

\* workload(inModel, inTimeSlots, employee): the sum of the 0/1 decisions.
workload(inModel, inTimeSlots, employee) ==
    Cardinality({t \in inTimeSlots : inModel[<<employee, t>>]})

\* Rotations with the slice one slot too long: timeSlots[i: i + p + 1].
RotationsLongSlice(pool) ==
    LET p == Cardinality(pool)
    IN  {i .. (Min2(i + p + 1, amountTimeSlots) - 1) :
            i \in {k \in timeSlots : k % p = 0}}

\* Rotations with the start index stepping by 1: range(0, len(timeSlots)).
RotationsUnitStep(pool) ==
    LET p == Cardinality(pool)
    IN  {i .. (Min2(i + p, amountTimeSlots) - 1) : i \in timeSlots}

\* Rotations without a shorter last group: range(0, len(timeSlots) - p + 1, p).
RotationsFullGroupsOnly(pool) ==
    LET p == Cardinality(pool)
    IN  {i .. (i + p - 1) : i \in {k \in timeSlots : k % p = 0 /\ k + p <= amountTimeSlots}}

\* [timeSlots[i: i + p] for i in range(0, len(timeSlots), p)], p = len(pool)
Rotations(pool) ==
    LET p == Cardinality(pool)
    IN  {i .. (Min2(i + p, amountTimeSlots) - 1) :
            i \in {k \in timeSlots : k % p = 0}}

rotations == Rotations(normalEmployees)

rotationsEscalation == Rotations(escalationEmployees)

\* costRotationsMax without the factor 2.
costRotationsMaxNoDouble == Cardinality(rotations) * (Cardinality(normalEmployees) - 1)

costRotationsMax == Cardinality(rotations) * 2 * (Cardinality(normalEmployees) - 1)

costRotationsEscalationMax ==
    Cardinality(rotationsEscalation) * 2 * (Cardinality(escalationEmployees) - 1)

costTargetWorkloadEscalationMax == Cardinality(timeSlotsFree)

\* calcAbsMinus with the three variables declared non-negative: [0, amountTimeSlots].
calcAbsMinusNonNegative(m1, m2) ==
    LET D == 0 .. amountTimeSlots
    IN  UNION {UNION {{<<a, b, c>> : c \in {z \in D : z = Max2(a, b)}} :
                          b \in {y \in D : y = m2 - m1}} :
                  a \in {x \in D : x = m1 - m2}}

\* calcAbsMinus with the second difference a copy of the first: m2IntVar == m1 - m2.
calcAbsMinusCopiedDifference(m1, m2) ==
    LET D == (-amountTimeSlots) .. amountTimeSlots
    IN  UNION {UNION {{<<a, b, c>> : c \in {z \in D : z = Max2(a, b)}} :
                          b \in {y \in D : y = m1 - m2}} :
                  a \in {x \in D : x = m1 - m2}}

\* calcAbsMinus with the result the minimum of the two differences:
\* model.AddMinEquality(absValueIntVar, [m1IntVar, m2IntVar]).
calcAbsMinusMinEquality(m1, m2) ==
    LET D == (-amountTimeSlots) .. amountTimeSlots
    IN  UNION {UNION {{<<a, b, c>> : c \in {z \in D : z = Min2(a, b)}} :
                          b \in {y \in D : y = m2 - m1}} :
                  a \in {x \in D : x = m1 - m2}}

\* The values the three integer variables of one calcAbsMinus(m1, m2) call can
\* take: each has domain [-amountTimeSlots, amountTimeSlots]; m1IntVar == m1 - m2,
\* m2IntVar == m2 - m1, absValueIntVar == max(m1IntVar, m2IntVar).
calcAbsMinus(m1, m2) ==
    LET D == (-amountTimeSlots) .. amountTimeSlots
    IN  UNION {UNION {{<<a, b, c>> : c \in {z \in D : z = Max2(a, b)}} :
                          b \in {y \in D : y = m2 - m1}} :
                  a \in {x \in D : x = m1 - m2}}

-----------------------------------------------------------------------------
\* What each constraint cell adds to the model.
\*   eq        <<role, e, t, b>>              decision(role, e, t) == b
\*   sum1      <<role, t>>                    sum over the role's pool at t == 1
\*   impl      <<r1, e1, t1, r2, e2, t2>>     decision 1 => not decision 2
\*   absMinus  <<tag, role, e, slots, m2>>    calcAbsMinus(workload(role, slots, e), m2)
\*   maxEq     <<role, hi, keys>>             cost variable in [0, hi] == max of keys
\*   objective <<weight, tag, role>>          one weighted term of costOverall

\* The employee-constraint cell testing "if constraint:" instead of
\* "if constraint != None:": forced-off entries add nothing.
EmployeeConstraintsOfTruthy(role) ==
    {<<role, k[1], k[2], TRUE>> :
        k \in {j \in Pool(role) \X timeSlots : EmployeeConstraints(role)[j] = "True"}}

\* The employee-constraint cell without the None test: a None entry is added
\* like a False one.
EmployeeConstraintsOfNoNoneTest(role) ==
    {<<role, k[1], k[2], EmployeeConstraints(role)[k] = "True">> :
        k \in Pool(role) \X timeSlots}

\* if constraint != None: model.Add(var == constraint), both roles
EmployeeConstraintsOf(role) ==
    {<<role, k[1], k[2], EmployeeConstraints(role)[k] = "True">> :
        k \in {j \in Pool(role) \X timeSlots : EmployeeConstraints(role)[j] # "None"}}

\* The coverage cell without its escalation line.
CoverageConstraintsNormalOnly == {<<"N", t>> : t \in timeSlots}

\* for t in timeSlots: model.Add(sum(...) == 1) for both roles
CoverageConstraints == {<<role, t>> : role \in {"N", "E"}, t \in timeSlots}

\* for t in range(amountTimeSlots-1): for e in both pools: normal => not escalation
SelfEscalationImplications ==
    {<<"N", e, t, "E", e, t>> :
        t \in 0 .. (amountTimeSlots - 2),
        e \in {x \in escalationEmployees : x \in normalEmployees}}

\* The no-immediate-repeat cell with its range one slot short.
RepeatImplicationsShortRange ==
    {<<"N", e, t, "N", e, t + 1>> : t \in 0 .. (amountTimeSlots - 3), e \in normalEmployees}

\* The no-immediate-repeat cell stepping by 2: range(0, amountTimeSlots-1, 2).
RepeatImplicationsEvenSlots ==
    {<<"N", e, t, "N", e, t + 1>> :
        t \in {u \in 0 .. (amountTimeSlots - 2) : u % 2 = 0}, e \in normalEmployees}

\* for t in range(amountTimeSlots-1): for e in normalEmployees: t => not t+1
RepeatImplications ==
    {<<"N", e, t, "N", e, t + 1>> : t \in 0 .. (amountTimeSlots - 2), e \in normalEmployees}

RotationKeys(role) == {<<"rot", role, e, r, 1>> : e \in Pool(role), r \in Rotations(Pool(role))}

TargetKeys(role) == {<<"tw", role, e, timeSlotsFree, Target(role)[e]>> : e \in Pool(role)}

\* costVar = model.NewIntVar(0, len(timeSlotsFree), ...); model.AddMaxEquality(costVar, [...])
TargetMaxEq(role) == <<role, Cardinality(timeSlotsFree), TargetKeys(role)>>

\* costOverall with costTargetWorkloadEscalationMax missing from the last weight.
costOverallMissingBound ==
    {<<1, "rot", "E">>,
     <<costRotationsEscalationMax, "rot", "N">>,
     <<costRotationsEscalationMax * costRotationsMax, "tw", "E">>,
     <<costRotationsEscalationMax * costRotationsMax, "tw", "N">>}

\* costOverall, as weighted terms
costOverall ==
    {<<1, "rot", "E">>,
     <<costRotationsEscalationMax, "rot", "N">>,
     <<costRotationsEscalationMax * costRotationsMax, "tw", "E">>,
     <<costRotationsEscalationMax * costRotationsMax * costTargetWorkloadEscalationMax,
       "tw", "N">>}

-----------------------------------------------------------------------------
\* The valuations a model accepts.

Var(an, ae, role, e, t) == IF role = "N" THEN an[<<e, t>>] ELSE ae[<<e, t>>]

\* The constraints of m that mention only the decisions of one role at one
\* slot t, on col, the decisions of the pool at t.
ColumnOK(m, role, t, col) ==
    /\ \A c \in m.sum1 :
          (c[1] = role /\ c[2] = t) => Cardinality({e \in Pool(role) : col[e]}) = 1
    /\ \A c \in m.eq : (c[1] = role /\ c[3] = t) => (col[c[2]] = c[4])
    /\ \A c \in m.impl :
          (c[1] = role /\ c[4] = role /\ c[3] = t /\ c[6] = t) => (col[c[2]] => ~col[c[5]])

\* The constraints of m that mention the decisions of one role at two slots.
GridOK(m, role, g) ==
    \A c \in m.impl :
        (c[1] = role /\ c[4] = role /\ c[3] # c[6]) =>
            (g[<<c[2], c[3]>>] => ~g[<<c[5], c[6]>>])

\* The constraints of m that relate the two roles.
CrossOK(m, an, ae) ==
    \A c \in m.impl :
        c[1] # c[4] =>
            (Var(an, ae, c[1], c[2], c[3]) => ~Var(an, ae, c[4], c[5], c[6]))

\* The sequences of n columns, the column of slot t - 1 at index t.
RECURSIVE ColumnSeqs(_, _, _)
ColumnSeqs(m, role, n) ==
    IF n = 0 THEN {<<>>}
    ELSE LET cols == {col \in [Pool(role) -> BOOLEAN] : ColumnOK(m, role, n - 1, col)}
         IN  {Append(s, col) : s \in ColumnSeqs(m, role, n - 1), col \in cols}

\* The decision grids of one role that satisfy every constraint of m on that
\* role alone: enumerated slot by slot, then filtered by the constraints that
\* span slots.
Grids(m, role) ==
    {g \in {[k \in Pool(role) \X timeSlots |-> s[k[2] + 1][k[1]]] :
                s \in ColumnSeqs(m, role, amountTimeSlots)} : GridOK(m, role, g)}

\* The decision pairs the boolean constraints of m accept.
Assignments(m) ==
    LET GE == Grids(m, "E")
    IN  UNION {{<<an, ae>> : ae \in {g \in GE : CrossOK(m, an, g)}} : an \in Grids(m, "N")}

\* The values of the integer variables of one role for one decision grid g
\* of that role: every calcAbsMinus triple and every cost variable is fixed by
\* its equalities, and exists only if it fits its domain.
RoleValuations(m, role, g) ==
    LET keys == {k \in m.absMinus : k[2] = role}
        sols == {<<k, calcAbsMinus(workload(g, k[4], k[3]), k[5])>> : k \in keys}
    IN  IF \E s \in sols : s[2] = {} THEN {}
        ELSE LET abss == {<<s[1], CHOOSE x \in s[2] : TRUE>> : s \in sols}
                 cs == {<<c[1], LET hi == MaxOf({s[2][3] : s \in {a \in abss : a[1] \in c[3]}})
                                IN  {z \in 0 .. c[2] : z = hi}>> :
                           c \in {d \in m.maxEq : d[1] = role}}
             IN  IF \E c \in cs : c[2] = {} THEN {}
                 ELSE {[abs |-> abss, cost |-> {<<c[1], CHOOSE z \in c[2] : TRUE>> : c \in cs}]}

\* The function a set of <<key, value>> pairs with distinct keys lists.
FunctionOf(pairs) ==
    [k \in {p[1] : p \in pairs} |-> (CHOOSE p \in pairs : p[1] = k)[2]]

\* The valuation that joins a decision pair with the integer variables of the
\* two roles.
Valuation(an, ae, xn, xe) ==
    [N |-> an, E |-> ae,
     abs |-> FunctionOf(xn.abs \cup xe.abs),
     cost |-> FunctionOf(xn.cost \cup xe.cost)]

\* Every valuation the model accepts: the decision pairs of Assignments(m),
\* each with the integer variables of its two grids.
Accepted(m) ==
    LET VN == UNION {{<<g, x>> : x \in RoleValuations(m, "N", g)} : g \in Grids(m, "N")}
        VE == UNION {{<<g, x>> : x \in RoleValuations(m, "E", g)} : g \in Grids(m, "E")}
    IN  UNION {{Valuation(pn[1], pe[1], pn[2], pe[2]) :
                   pe \in {q \in VE : CrossOK(m, pn[1], q[1])}} : pn \in VN}

\* solver.Value of a cost expression.
CostValue(v, tag, role) ==
    IF tag = "rot"
    THEN LET keys == {k \in DOMAIN v.abs : k[1] = "rot" /\ k[2] = role}
         IN  SumOver([k \in keys |-> v.abs[k][3]], keys)
    ELSE v.cost[role]

ObjectiveValue(m, v) ==
    SumOver([term \in m.objective |-> term[1] * CostValue(v, term[2], term[3])], m.objective)

-----------------------------------------------------------------------------
\* The notebook cells.

EmployeeConstraintsCell ==
    /\ pc = "employeeConstraints"
    /\ model' = [model EXCEPT !.eq = @ \cup EmployeeConstraintsOf("N")
                                        \cup EmployeeConstraintsOf("E")]
    /\ pc' = "coverage"
    /\ UNCHANGED <<input, status, solution, output>>

CoverageCell ==
    /\ pc = "coverage"
    /\ model' = [model EXCEPT !.sum1 = @ \cup CoverageConstraints]
    /\ pc' = "noSelfEscalation"
    /\ UNCHANGED <<input, status, solution, output>>

NoSelfEscalationCell ==
    /\ pc = "noSelfEscalation"
    /\ model' = [model EXCEPT !.impl = @ \cup SelfEscalationImplications]
    /\ pc' = "noImmediateRepeat"
    /\ UNCHANGED <<input, status, solution, output>>

NoImmediateRepeatCell ==
    /\ pc = "noImmediateRepeat"
    /\ model' = [model EXCEPT !.impl = @ \cup RepeatImplications]
    /\ pc' = "rotations"
    /\ UNCHANGED <<input, status, solution, output>>

RotationsCell ==
    /\ pc = "rotations"
    /\ model' = [model EXCEPT !.absMinus = @ \cup RotationKeys("N")]
    /\ pc' = "rotationsEscalation"
    /\ UNCHANGED <<input, status, solution, output>>

RotationsEscalationCell ==
    /\ pc = "rotationsEscalation"
    /\ model' = [model EXCEPT !.absMinus = @ \cup RotationKeys("E")]
    /\ pc' = "targetWorkloadEscalation"
    /\ UNCHANGED <<input, status, solution, output>>

TargetWorkloadEscalationCell ==
    /\ pc = "targetWorkloadEscalation"
    /\ model' = [model EXCEPT !.absMinus = @ \cup TargetKeys("E"),
                              !.maxEq = @ \cup {TargetMaxEq("E")}]
    /\ pc' = "targetWorkload"
    /\ UNCHANGED <<input, status, solution, output>>

TargetWorkloadCell ==
    /\ pc = "targetWorkload"
    /\ model' = [model EXCEPT !.absMinus = @ \cup TargetKeys("N"),
                              !.maxEq = @ \cup {TargetMaxEq("N")}]
    /\ pc' = "minimize"
    /\ UNCHANGED <<input, status, solution, output>>

MinimizeCell ==
    /\ pc = "minimize"
    /\ model' = [model EXCEPT !.objective = costOverall]
    /\ pc' = "solve"
    /\ UNCHANGED <<input, status, solution, output>>

\* solver.Solve(model): INFEASIBLE when the model accepts nothing, otherwise a
\* valuation the model accepts, OPTIMAL when no accepted valuation has a
\* smaller objective value.
Solve ==
    /\ pc = "solve"
    /\ \E acc \in {Accepted(model)} :
          IF acc = {}
          THEN status' = "INFEASIBLE" /\ solution' = NoSolution
          ELSE \E obj \in {[w \in acc |-> ObjectiveValue(model, w)]} :
               \E best \in {CHOOSE b \in {obj[w] : w \in acc} : \A w \in acc : b <= obj[w]} :
               \E v \in acc :
                   /\ solution' = v
                   /\ status' = IF obj[v] = best THEN "OPTIMAL" ELSE "FEASIBLE"
    /\ pc' = "print"
    /\ UNCHANGED <<input, model, output>>

\* The result cell: every solver.Value it prints.  Without a solution the
\* cell prints nothing.
PrintCell ==
    /\ pc = "print"
    /\ output' =
          IF status \in {"OPTIMAL", "FEASIBLE"}
          THEN [normal |-> {<<t, e>> \in timeSlots \X normalEmployees : solution.N[<<e, t>>]},
                workload |-> [e \in normalEmployees |-> workload(solution.N, timeSlots, e)],
                costRotations |-> CostValue(solution, "rot", "N"),
                costTargetWorkload |-> CostValue(solution, "tw", "N"),
                costRotationPerEmployee |->
                    [k \in normalEmployees \X rotations |->
                        solution.abs[<<"rot", "N", k[1], k[2], 1>>][3]],
                escalation |->
                    {<<t, e>> \in timeSlots \X escalationEmployees : solution.E[<<e, t>>]},
                costRotationsEscalation |-> CostValue(solution, "rot", "E"),
                costTargetWorkloadEscalation |-> CostValue(solution, "tw", "E"),
                costRotationEscalationPerEmployee |->
                    [k \in escalationEmployees \X rotationsEscalation |->
                        solution.abs[<<"rot", "E", k[1], k[2], 1>>][3]]]
          ELSE output
    /\ pc' = "done"
    /\ UNCHANGED <<input, model, status, solution>>

Next ==
    \/ EmployeeConstraintsCell
    \/ CoverageCell
    \/ NoSelfEscalationCell
    \/ NoImmediateRepeatCell
    \/ RotationsCell
    \/ RotationsEscalationCell
    \/ TargetWorkloadEscalationCell
    \/ TargetWorkloadCell
    \/ MinimizeCell
    \/ Solve
    \/ PrintCell

Spec == Init /\ [][Next]_vars

SpecCost == InitCost /\ [][Next]_vars

SpecObjective == InitObjective /\ [][Next]_vars

-----------------------------------------------------------------------------
\* Properties.

Roles == {"N", "E"}

Abs(x) == IF x < 0 THEN -x ELSE x

\* The solver returned a valuation.
Solved == pc \in {"print", "done"} /\ status \in {"OPTIMAL", "FEASIBLE"}

Decision(role) == IF role = "N" THEN solution.N ELSE solution.E

\* C1: no self-escalation at every slot: in every accepted assignment, for
\* every employee of both pools and every slot t in 0..N-1, the last slot
\* included, the normal and the escalation decision at t are not both true.
C1_NoSelfEscalationEverySlot ==
    Solved =>
        \A e \in normalEmployees \cap escalationEmployees : \A t \in timeSlots :
            ~(solution.N[<<e, t>>] /\ solution.E[<<e, t>>])

\* C3: exactly-one coverage: in every accepted assignment, at every slot
\* exactly one normal employee has a true normal decision and exactly one
\* escalation employee has a true escalation decision.
C3_ExactlyOneCoverage ==
    Solved =>
        \A t \in timeSlots : \A role \in Roles :
            Cardinality({e \in Pool(role) : Decision(role)[<<e, t>>]}) = 1

\* An accepted assignment over several slots with two employees in each pool.
C3_Witness ==
    /\ Solved
    /\ amountTimeSlots >= 2
    /\ Cardinality(normalEmployees) = 2
    /\ Cardinality(escalationEmployees) = 2

\* C4: no immediate repeat in the normal role: in every accepted assignment no
\* normal employee holds slots t and t+1 for any t < N-1; the rule does not
\* wrap from the last slot to slot 0 and no such rule is emitted for the
\* escalation role.
C4_NoImmediateRepeatNormal ==
    /\ Solved =>
          \A e \in normalEmployees : \A t \in 0 .. (amountTimeSlots - 2) :
              ~(solution.N[<<e, t>>] /\ solution.N[<<e, t + 1>>])
    /\ \A c \in model.impl :
          /\ ~(c[1] = "E" /\ c[4] = "E")
          /\ (c[1] = "N" /\ c[4] = "N") => c[6] = c[3] + 1

\* An accepted assignment in which a normal employee holds the first and the
\* last of at least three slots and an escalation employee holds two
\* consecutive slots.
C4_Witness ==
    /\ Solved
    /\ amountTimeSlots >= 3
    /\ \E e \in normalEmployees :
          solution.N[<<e, 0>>] /\ solution.N[<<e, amountTimeSlots - 1>>]
    /\ \E e \in escalationEmployees : \E t \in 0 .. (amountTimeSlots - 2) :
          solution.E[<<e, t>>] /\ solution.E[<<e, t + 1>>]

\* C5: availability is honoured per role: in every accepted assignment a
\* FORCED_ON (True) entry has a true decision and a FORCED_OFF (False) entry a
\* false one; a FREE (None) entry adds no constraint to the model.
C5_AvailabilityHonoured ==
    /\ Solved =>
          \A role \in Roles : \A k \in Pool(role) \X timeSlots :
              /\ EmployeeConstraints(role)[k] = "True" => Decision(role)[k]
              /\ EmployeeConstraints(role)[k] = "False" => ~Decision(role)[k]
    /\ \A c \in model.eq : EmployeeConstraints(c[1])[<<c[2], c[3]>>] # "None"

\* An accepted assignment of an input with a forced-on and a forced-off entry,
\* in which free entries are decided both ways.
C5_Witness ==
    /\ Solved
    /\ \E role \in Roles :
          /\ \E k \in Pool(role) \X timeSlots : EmployeeConstraints(role)[k] = "True"
          /\ \E k \in Pool(role) \X timeSlots : EmployeeConstraints(role)[k] = "False"
          /\ \E k \in Pool(role) \X timeSlots :
                EmployeeConstraints(role)[k] = "None" /\ Decision(role)[k]
          /\ \E k \in Pool(role) \X timeSlots :
                EmployeeConstraints(role)[k] = "None" /\ ~Decision(role)[k]

\* For every slot and role, at least one pool member is not FORCED_OFF and at
\* most one is FORCED_ON.
AvailabilityLeavesACandidate ==
    \A role \in Roles : \A t \in timeSlots :
        /\ \E e \in Pool(role) : EmployeeConstraints(role)[<<e, t>>] # "False"
        /\ Cardinality({e \in Pool(role) : EmployeeConstraints(role)[<<e, t>>] = "True"}) <= 1

\* C6 as stated: for every input that leaves a candidate at every slot and
\* role, the emitted model (availability, coverage, no self-escalation, normal
\* no-immediate-repeat) has a satisfying assignment.
C6_FeasibleWheneverCandidates ==
    (pc \in {"print", "done"} /\ AvailabilityLeavesACandidate) => status # "INFEASIBLE"

\* C6 as amended: for every input that leaves a candidate at every slot and
\* role, the availability and exactly-one coverage constraints, as emitted by
\* their two cells, are jointly satisfiable.
C6_AvailabilityAndCoverageSatisfiable ==
    (pc = "noSelfEscalation" /\ AvailabilityLeavesACandidate) => Assignments(model) # {}

\* The availability and coverage cells have run on an input with a forced-on
\* and a forced-off entry that leaves a candidate everywhere.
C6_Witness ==
    /\ pc = "noSelfEscalation"
    /\ AvailabilityLeavesACandidate
    /\ \E c \in model.eq : c[4]
    /\ \E c \in model.eq : ~c[4]
    /\ model.sum1 # {}

\* The weight of a cost term in the emitted objective.
Weight(tag, role) ==
    (CHOOSE term \in model.objective : term[2] = tag /\ term[3] = role)[1]

\* The objective value of a cost vector <<C1, C2, C3, C4>>: escalation rotation
\* cost, normal rotation cost, escalation and normal target-workload cost.
ObjectiveOf(c) ==
    Weight("rot", "E") * c[1] + Weight("rot", "N") * c[2]
        + Weight("tw", "E") * c[3] + Weight("tw", "N") * c[4]

\* The bounds M1..M4 of the four cost terms, each reduced by slack.
CostVectors(slack) ==
    (0 .. (costRotationsEscalationMax - slack[1])) \X (0 .. (costRotationsMax - slack[2]))
        \X (0 .. (costTargetWorkloadEscalationMax - slack[3]))
        \X (0 .. (Cardinality(timeSlotsFree) - slack[4]))

\* a precedes b in the lexicographic order that compares the components in
\* the order given by the sequence order.
LexLess(a, b, order) ==
    \E i \in 1 .. 4 :
        /\ a[order[i]] < b[order[i]]
        /\ \A j \in 1 .. (i - 1) : a[order[j]] = b[order[j]]

\* C2 as stated: for any two cost vectors with 0 <= Ci <= Mi, the one that is
\* lexicographically smaller in the order C1, C2, C3, C4 has the strictly
\* smaller objective value.
C2_StrictPriorityC1First ==
    pc = "solve" =>
        \A a \in CostVectors(<<0, 0, 0, 0>>) : \A b \in CostVectors(<<0, 0, 0, 0>>) :
            LexLess(a, b, <<1, 2, 3, 4>>) => ObjectiveOf(a) < ObjectiveOf(b)

\* C2 as amended: for any two cost vectors with 0 <= Ci < Mi for C1, C2, C3 and
\* 0 <= C4 <= M4, the one that is lexicographically smaller in the order C4,
\* C3, C2, C1 has the strictly smaller objective value.
C2_StrictPriorityC4FirstBelowBounds ==
    pc = "solve" =>
        \A a \in CostVectors(<<1, 1, 1, 0>>) : \A b \in CostVectors(<<1, 1, 1, 0>>) :
            LexLess(a, b, <<4, 3, 2, 1>>) => ObjectiveOf(a) < ObjectiveOf(b)

\* The objective has been emitted for an input in which every one of C1, C2,
\* C3 has at least two values below its bound and C4 can differ.
C2_Witness ==
    /\ pc = "solve"
    /\ costRotationsEscalationMax >= 2
    /\ costRotationsMax >= 2
    /\ costTargetWorkloadEscalationMax >= 2
    /\ model.objective # {}

\* Every assignment the boolean constraints accept has values for the
\* integer variables of the cost terms.
HardAssignmentsKeepValuation ==
    LET VN == {g \in Grids(model, "N") : RoleValuations(model, "N", g) # {}}
        VE == {g \in Grids(model, "E") : RoleValuations(model, "E", g) # {}}
    IN  \A p \in Assignments(model) : p[1] \in VN /\ p[2] \in VE

\* C7 as stated: for any non-negative target workloads, every assignment that
\* satisfies the hard constraints is accepted by the full model.
C7_AnyTargetKeepsAssignments ==
    pc = "solve" => HardAssignmentsKeepValuation

TargetsWithinFreeSlots ==
    \A role \in Roles : \A e \in Pool(role) : Target(role)[e] <= Cardinality(timeSlotsFree)

\* C7 as amended: for any non-negative target workloads that do not exceed
\* the number of non-working-hours slots, every assignment that satisfies the
\* hard constraints is accepted by the full model.
C7_TargetsWithinFreeSlotsKeepAssignments ==
    (pc = "solve" /\ TargetsWithinFreeSlots) => HardAssignmentsKeepValuation

\* The full model of an input whose normal target exceeds half the free slots
\* and whose escalation target is positive, both within the free slots, with
\* an assignment the hard constraints accept.
C7_Witness ==
    /\ pc = "solve"
    /\ TargetsWithinFreeSlots
    /\ \E e \in normalEmployees : 2 * targetWorkloadNormal[e] > Cardinality(timeSlotsFree)
    /\ \E e \in escalationEmployees : targetWorkloadEscalation[e] > 0
    /\ Assignments(model) # {}

\* The rotation cost of a decision grid: the sum over groups and employees of
\* |workload(group, e) - 1|.
RotationCostOf(role, g) ==
    LET keys == Pool(role) \X Rotations(Pool(role))
    IN  SumOver([k \in keys |-> Abs(workload(g, k[2], k[1]) - 1)], keys)

RotationsMax(role) == IF role = "N" THEN costRotationsMax ELSE costRotationsEscalationMax

\* The model with the coverage constraints alone.
CoverageModel == [EmptyModel EXCEPT !.sum1 = model.sum1]

\* C8: rotation-cost upper bound: for each role, in every assignment that
\* satisfies exactly-one coverage the rotation cost is at most
\* |R| * 2 * (|P| - 1), and so is the rotation cost the solver reports.
C8_RotationCostBound ==
    /\ pc = "solve" =>
          \A role \in Roles : \A g \in Grids(CoverageModel, role) :
              RotationCostOf(role, g) <= RotationsMax(role)
    /\ Solved => \A role \in Roles : CostValue(solution, "rot", role) <= RotationsMax(role)

\* An accepted assignment of a role whose last rotation group is shorter than
\* the pool, with a positive rotation cost.
C8_Witness ==
    /\ Solved
    /\ \E role \in Roles :
          /\ amountTimeSlots % Cardinality(Pool(role)) # 0
          /\ Cardinality(Rotations(Pool(role))) >= 2
          /\ CostValue(solution, "rot", role) > 0

\* C9: single-employee pool: every rotation group of that role has size 1
\* and in every accepted assignment the rotation cost of every (group,
\* employee) pair of that role is 0.
C9_SingleEmployeePool ==
    \A role \in Roles :
        Cardinality(Pool(role)) = 1 =>
            /\ \A r \in Rotations(Pool(role)) : Cardinality(r) = 1
            /\ Solved =>
                  /\ \A k \in DOMAIN solution.abs :
                        (k[1] = "rot" /\ k[2] = role) => solution.abs[k][3] = 0
                  /\ CostValue(solution, "rot", role) = 0

\* An accepted assignment over several slots with a one-employee pool.
C9_Witness ==
    /\ Solved
    /\ amountTimeSlots >= 2
    /\ \E role \in Roles :
          /\ Cardinality(Pool(role)) = 1
          /\ \E k \in DOMAIN solution.abs : k[1] = "rot" /\ k[2] = role

\* The printed lines <<t, e>> of a role name exactly one employee per slot.
WellDefined(lines) ==
    \A t \in timeSlots : Cardinality({l \in lines : l[1] = t}) = 1

\* The projected schedule slot -> employee of the printed lines.
Schedule(lines) == [t \in timeSlots |-> (CHOOSE l \in lines : l[1] = t)[2]]

RecomputedRotationCost(role, sched) ==
    LET keys == Pool(role) \X Rotations(Pool(role))
    IN  SumOver([k \in keys |->
                    Abs(Cardinality({t \in k[2] : sched[t] = k[1]}) - 1)], keys)

RecomputedTargetCost(role, sched) ==
    MaxOf({Abs(Cardinality({t \in timeSlotsFree : sched[t] = e}) - Target(role)[e]) :
              e \in Pool(role)})

\* C10: projection is exact: for every accepted valuation the printed
\* schedule names exactly one employee per slot and role, and the four cost
\* terms recomputed from it equal the values read from the valuation.
C10_ProjectionExact ==
    (pc = "done" /\ Solved) =>
        /\ WellDefined(output.normal)
        /\ WellDefined(output.escalation)
        /\ RecomputedRotationCost("N", Schedule(output.normal)) = output.costRotations
        /\ RecomputedRotationCost("E", Schedule(output.escalation))
              = output.costRotationsEscalation
        /\ RecomputedTargetCost("N", Schedule(output.normal)) = output.costTargetWorkload
        /\ RecomputedTargetCost("E", Schedule(output.escalation))
              = output.costTargetWorkloadEscalation

\* A printed result in which all four cost terms are positive.
C10_Witness ==
    /\ pc = "done"
    /\ Solved
    /\ output.costRotations > 0
    /\ output.costRotationsEscalation > 0
    /\ output.costTargetWorkload > 0
    /\ output.costTargetWorkloadEscalation > 0

\* ceil(a / b) for a >= 0, b >= 1.
CeilDiv(a, b) == (a + b - 1) \div b

\* C13: rotation groups partition the slots: when the rotation cell runs, for
\* each role the groups are contiguous, pairwise disjoint, cover every slot
\* 0..N-1 exactly once, are ceil(N/p) in number, and all have exactly p slots
\* except possibly the last, which has between 1 and p slots.
C13_RotationGroupsPartition ==
    pc = "rotations" => \A role \in Roles :
        LET p == Cardinality(Pool(role))
            R == Rotations(Pool(role))
        IN  /\ \A r \in R : r # {} /\ \A t \in timeSlots :
                    ((\E a \in r : a <= t) /\ (\E b \in r : t <= b)) => t \in r
            /\ \A r1 \in R : \A r2 \in R : r1 # r2 => r1 \cap r2 = {}
            /\ \A t \in timeSlots : Cardinality({r \in R : t \in r}) = 1
            /\ \A r \in R : r \subseteq timeSlots
            /\ Cardinality(R) = CeilDiv(amountTimeSlots, p)
            /\ \A r \in R :
                    IF amountTimeSlots - 1 \in r
                    THEN Cardinality(r) >= 1 /\ Cardinality(r) <= p
                    ELSE Cardinality(r) = p

\* A pool of two or more whose size does not divide the slot count: several
\* groups, the last one shorter than the pool.
C13_Witness ==
    \E role \in Roles :
        /\ Cardinality(Pool(role)) >= 2
        /\ amountTimeSlots % Cardinality(Pool(role)) # 0
        /\ Cardinality(Rotations(Pool(role))) >= 2
        /\ \E r \in Rotations(Pool(role)) : Cardinality(r) < Cardinality(Pool(role))
        /\ pc = "rotations"

\* The documented target bounds: a normal target is at most half the
\* non-working-hours slots, an escalation target at most the non-working-hours
\* slots less the slots forced off for that employee in the escalation role.
TargetsWithinDocumentedBound ==
    /\ \A e \in normalEmployees :
          2 * targetWorkloadNormal[e] <= Cardinality(timeSlotsFree)
    /\ \A e \in escalationEmployees :
          targetWorkloadEscalation[e] <=
              Cardinality(timeSlotsFree)
                - Cardinality({t \in timeSlots : escalationEmployeeConstraints[<<e, t>>] = "False"})

\* One call of the helper is exact and fits: its variables take exactly the
\* values m1 - m2, m2 - m1 and |m1 - m2|.
ExactAbs(m1, m2) == calcAbsMinus(m1, m2) = {<<m1 - m2, m2 - m1, Abs(m1 - m2)>>}

\* C12: the absolute-value linearization is exact and never restrictive: in
\* every accepted valuation the variable calcAbsMinus returns equals
\* |m1 - m2|, and for every workload m1 in 0..N against 1, and every workload
\* over the non-working-hours slots against a target within its documented
\* bound, the three variables fit in [-N, N], so the helper accepts the call
\* (the calls are checked where the first cell that uses the helper runs).
C12_AbsMinusExactAndNotRestrictive ==
    /\ (Solved /\ pc = "print") =>
          \A k \in DOMAIN solution.abs :
              solution.abs[k][3] = Abs(workload(Decision(k[2]), k[4], k[3]) - k[5])
    /\ pc = "rotations" => \A m1 \in 0 .. amountTimeSlots : ExactAbs(m1, 1)
    /\ (pc = "rotations" /\ TargetsWithinDocumentedBound) =>
          \A role \in Roles : \A e \in Pool(role) :
              \A m1 \in 0 .. Cardinality(timeSlotsFree) : ExactAbs(m1, Target(role)[e])

\* An accepted valuation with positive targets within the documented bounds
\* in which one call has a negative first difference and another a positive
\* one.
C12_Witness ==
    /\ Solved /\ pc = "print"
    /\ TargetsWithinDocumentedBound
    /\ \E e \in normalEmployees : targetWorkloadNormal[e] > 0
    /\ \E e \in escalationEmployees : targetWorkloadEscalation[e] > 0
    /\ \E k \in DOMAIN solution.abs : k[1] = "tw" /\ solution.abs[k][1] < 0
    /\ \E k \in DOMAIN solution.abs : k[1] = "rot" /\ solution.abs[k][1] > 0

\* The largest number of slots of S no two of which are adjacent.
MaxNonAdjacent(S) ==
    MaxOf({Cardinality(X) : X \in {Y \in SUBSET S : \A t \in Y : t + 1 \notin Y}})

-----------------------------------------------------------------------------
\* The reference instance: the input cell as the notebook has it, and the
\* solve call unfolded over the slots.

\* The input cell of the notebook.
InitReference ==
    /\ amountTimeSlots = 4 * 4
    /\ timeSlotsWorkday = {1, 2, 5, 6, 9, 10, 13, 14}
    /\ normalEmployees = {1, 2, 3, 4}
    /\ escalationEmployees = {0, 1, 2}
    /\ targetWorkloadNormal = [e \in normalEmployees |-> 0]
    /\ targetWorkloadEscalation = [e \in escalationEmployees |-> 2]
    /\ normalEmployeeConstraints =
          ConstraintDict(normalEmployees, timeSlots, {<<1, 0, "False">>, <<2, 0, "False">>})
    /\ escalationEmployeeConstraints =
          ConstraintDict(escalationEmployees, timeSlots,
                         {<<2, 0, "True">>, <<0, 1, "False">>, <<1, 1, "False">>,
                          <<0, 2, "False">>, <<1, 2, "False">>})
    /\ InitRest

\* The costs the notebook's run printed for the valuation it reports OPTIMAL.
PrintedCost(tag, role) ==
    IF tag = "rot" THEN (IF role = "N" THEN 0 ELSE 6)
    ELSE (IF role = "N" THEN 2 ELSE 1)

\* The objective value of the printed valuation.
PrintedObjective(m) ==
    SumOver([term \in m.objective |-> term[1] * PrintedCost(term[2], term[3])], m.objective)

\* What the constraints and the cost terms read of the first `slot` columns
\* of a valuation:
\*   slot      the number of columns assigned
\*   carry     the true decisions <<role, e>> of the last column
\*   open      the workload so far of every calcAbsMinus call whose slot set
\*             has begun and not ended
\*   rot       per role, the sum of the finished rotation calls
\*   tw        per role, the maximum of the finished target-workload calls
\*   workload  per normal employee, workload(assignedNormalTimeSlots, timeSlots, e)
StartColumns ==
    [slot |-> 0, carry |-> {}, open |-> <<>>,
     rot |-> [role \in {"N", "E"} |-> 0], tw |-> [role \in {"N", "E"} |-> 0],
     workload |-> [e \in normalEmployees |-> 0]]

Columns == IF solution = NoSolution THEN StartColumns ELSE solution

\* What slot cols.slot = t of the model m involves: the constraints that end
\* on t, the decisions of t that an implication carries to t + 1, and the
\* calcAbsMinus calls that are live at t and those that end on it.
SlotOf(m, cols) ==
    LET t == cols.slot
        live == {k \in m.absMinus : k \in DOMAIN cols.open \/ t \in k[4]}
    IN  [sum1 |-> {c \in m.sum1 : c[2] = t},
         eq |-> {c \in m.eq : c[3] = t},
         impl |-> {c \in m.impl : c[6] = t /\ c[3] \in {t - 1, t}},
         carried |-> {<<c[1], c[2]>> : c \in {d \in m.impl : d[3] = t /\ d[6] = t + 1}},
         live |-> live,
         done |-> {k \in live : \A u \in k[4] : u <= t}]

\* The column <<n, e>> (normal employee n, escalation employee e) satisfies
\* the constraints of slot t, after a column with true decisions carry.
ColumnAccepted(st, t, carry, n, e) ==
    LET on(role, x) == IF role = "N" THEN x = n ELSE x = e
    IN  /\ st.sum1 = {<<"N", t>>, <<"E", t>>}
        /\ \A c \in st.eq : on(c[1], c[2]) = c[4]
        /\ \A c \in st.impl :
              IF c[3] = t THEN ~(on(c[1], c[2]) /\ on(c[4], c[5]))
              ELSE ~(<<c[1], c[2]>> \in carry /\ on(c[4], c[5]))

\* The columns after column <<n, e>> is assigned to slot t; the empty set when
\* a finished calcAbsMinus call has no value in its domain.
NextColumns(st, cols, n, e) ==
    LET t == cols.slot
        on(role, x) == IF role = "N" THEN x = n ELSE x = e
        count(k) == (IF k \in DOMAIN cols.open THEN cols.open[k] ELSE 0)
                      + (IF t \in k[4] /\ on(k[2], k[3]) THEN 1 ELSE 0)
        vals == {<<k, calcAbsMinus(count(k), k[5])>> : k \in st.done}
    IN  IF \E v \in vals : v[2] = {} THEN {}
        ELSE LET closed == {<<v[1], (CHOOSE x \in v[2] : TRUE)[3]>> : v \in vals}
                 of(tag, role) == {c \in closed : c[1][1] = tag /\ c[1][2] = role}
             IN  {[slot |-> t + 1,
                   carry |-> {<<"N", n>>, <<"E", e>>} \cap st.carried,
                   open |-> [k \in st.live \ st.done |-> count(k)],
                   rot |-> [role \in {"N", "E"} |->
                               cols.rot[role]
                                 + SumOver([c \in of("rot", role) |-> c[2]], of("rot", role))],
                   tw |-> [role \in {"N", "E"} |->
                              MaxOf({cols.tw[role]} \cup {c[2] : c \in of("tw", role)})],
                   workload |-> [cols.workload EXCEPT ![n] = @ + 1]]}

\* The least value a role's target-workload cost can take: the role's calls
\* share one slot set, one per employee, and coverage gives one assignment
\* per slot, so the workloads add up to the number of slots and the largest
\* |workload - target| is at least |slots - sum of targets| / |pool|, rounded up.
LeastTargetCost(m, role) ==
    LET keys == {k \in m.absMinus : k[1] = "tw" /\ k[2] = role}
        slots == UNION {k[4] : k \in keys}
        p == Cardinality(Pool(role))
        gap == Cardinality(slots) - SumOver([k \in keys |-> k[5]], keys)
    IN  IF \/ {k[3] : k \in keys} # Pool(role)
           \/ Cardinality(keys) # p
           \/ \E k \in keys : k[4] # slots
           \/ \E t \in slots : <<role, t>> \notin m.sum1
        THEN 0
        ELSE ((IF gap < 0 THEN -gap ELSE gap) + p - 1) \div p

\* The objective value of complete columns.
ColumnsObjective(m, cols) ==
    SumOver([term \in m.objective |->
                term[1] * (IF term[2] = "rot" THEN cols.rot[term[3]] ELSE cols.tw[term[3]])],
            m.objective)

\* What the costs of the assigned columns add to the objective at least: the
\* finished calls, an open call with the workload it has above its second
\* argument, and for a target-workload cost least, the least value it can take.
CostSoFar(cols, least, tag, role) ==
    LET over == {<<k, Max2(cols.open[k] - k[5], 0)>> :
                    k \in {j \in DOMAIN cols.open : j[1] = tag /\ j[2] = role}}
    IN  IF tag = "rot" THEN cols.rot[role] + SumOver([o \in over |-> o[2]], over)
        ELSE MaxOf({cols.tw[role], IF role = "N" THEN least[1] ELSE least[2]}
                   \cup {o[2] : o \in over})

ObjectiveSoFar(m, cols, least) ==
    SumOver([term \in m.objective |-> term[1] * CostSoFar(cols, least, term[2], term[3])],
            m.objective)

\* solver.Solve(model), one slot of it: a column the constraints accept is
\* added.  Columns whose costs already exceed the objective of the printed
\* valuation are not continued: no minimal valuation extends them.
SolveSlot ==
    /\ pc = "solve"
    /\ Columns.slot < amountTimeSlots
    /\ \E cols \in {Columns} :
       \E limit \in {PrintedObjective(model)} :
       \E least \in {<<LeastTargetCost(model, "N"), LeastTargetCost(model, "E")>>} :
       \E st \in {SlotOf(model, cols)} :
       \E n \in normalEmployees : \E e \in escalationEmployees :
          /\ ColumnAccepted(st, cols.slot, cols.carry, n, e)
          /\ \E next \in NextColumns(st, cols, n, e) :
                /\ ObjectiveSoFar(model, next, least) <= limit
                /\ solution' = next
    /\ UNCHANGED <<input, model, pc, status, output>>

\* solver.Solve(model), its end: every slot has its column; each cost variable
\* of a max-equality takes the maximum if its domain holds it.
SolveComplete ==
    /\ pc = "solve"
    /\ Columns.slot = amountTimeSlots
    /\ \A c \in model.maxEq : Columns.tw[c[1]] \in 0 .. c[2]
    /\ solution' = Columns
    /\ pc' = "print"
    /\ UNCHANGED <<input, model, status, output>>

NextReference ==
    \/ EmployeeConstraintsCell
    \/ CoverageCell
    \/ NoSelfEscalationCell
    \/ NoImmediateRepeatCell
    \/ RotationsCell
    \/ RotationsEscalationCell
    \/ TargetWorkloadEscalationCell
    \/ TargetWorkloadCell
    \/ MinimizeCell
    \/ SolveSlot
    \/ SolveComplete

SpecReference == InitReference /\ [][NextReference]_vars

\* The objective value of the complete valuation the search has reached.
CompleteObjective == ColumnsObjective(model, solution)

\* C11: reference instance: the model is feasible and has an optimal
\* solution: no valuation the model accepts has a smaller objective than the
\* one the notebook printed, and in every valuation with that minimal
\* objective each normal employee's total workload over the 16 slots is 4 and
\* the normal rotation cost is 0.
C11_ReferenceInstance ==
    pc = "print" =>
        /\ CompleteObjective >= PrintedObjective(model)
        /\ CompleteObjective = PrintedObjective(model) =>
              /\ \A e \in normalEmployees : solution.workload[e] = 4
              /\ solution.rot["N"] = 0

\* A complete valuation of the reference instance with the costs and the
\* workloads the notebook printed.
C11_Witness ==
    /\ pc = "print"
    /\ amountTimeSlots = 16
    /\ \A e \in normalEmployees : solution.workload[e] = 4
    /\ \A role \in {"N", "E"} :
          /\ solution.rot[role] = PrintedCost("rot", role)
          /\ solution.tw[role] = PrintedCost("tw", role)
    /\ CompleteObjective = PrintedObjective(model)

====
